---- MODULE Spec2Model ----
(***************************************************************************)
(* A model of the FFM class of src/src/FFM.js: a personality profile with  *)
(* five trait values, validated on construction and on every assignment,   *)
(* with a conversion of a trait value to a Likert score.                   *)
(*                                                                         *)
(* JavaScript numbers are modelled as decimal fixed-point numbers with     *)
(* eleven fractional digits, held in two limbs so that every intermediate  *)
(* value fits a 32-bit integer: a number is (hi * Base + lo) * 1e-11 with   *)
(* 0 <= lo < Base, or NaN.  The grid is ten times finer than the epsilon   *)
(* of calculateLikertScore (1e-10) and far coarser than the rounding error *)
(* of a double, so on this grid the exact arithmetic below and the IEEE    *)
(* arithmetic of the code give the same comparisons and the same ceiling.  *)
(***************************************************************************)
EXTENDS Integers, Sequences, FiniteSets, TLC

VARIABLES
    ffm,      \* the profile the caller holds: NoObject before construction
    op,       \* the operation called last
    args,     \* the arguments of that call, a sequence
    thrown,   \* the message of the Error that call threw, or NoError
    ret,      \* the value that call returned, or undefined
    this,     \* the receiver of that call as the call left it
    prev      \* the static call before the last one: [op, arg, thrown, ret]

vars == <<ffm, op, args, thrown, ret, this, prev>>

----------------------------------------------------------------------------
(* Bounds of the model. *)

\* Trait values of a profile are drawn from k / ObjSteps, k = 0 .. ObjSteps.
ObjSteps == 2

\* Trait values of the profiles whose views are taken are drawn from
\* k / ViewSteps, k = 0 .. ViewSteps.
ViewSteps == 4

\* Inputs of the static functions are drawn from the tenths -0.1 .. 1.1 and
\* from k/5 + d * 5e-11 for k = 0 .. 5 and d = -MaxOff .. MaxOff (d = -2 is
\* "minus epsilon").
MaxOff == 2

----------------------------------------------------------------------------
(* Numbers. *)

Base == 10^6

OneHi == 10^5

Num(hi, lo) == [nan |-> FALSE, hi |-> hi, lo |-> lo]

NaN == [nan |-> TRUE, hi |-> 0, lo |-> 0]

Norm(hi, lo) == Num(hi + (lo \div Base), lo % Base)

\* The number literal n (an integer).
FromInt(n) == Num(n * OneHi, 0)

\* The number literal t/10.
Tenths(t) == Num(t * (OneHi \div 10), 0)

\* d grid units, d * 1e-11 (d may be negative).
Units(d) == Norm(0, d)

\* The number k/n, truncated to the grid.
Ratio(k, n) == Num((k * OneHi) \div n, (((k * OneHi) % n) * Base) \div n)

\* a + b
NumAdd(a, b) == IF a.nan \/ b.nan THEN NaN ELSE Norm(a.hi + b.hi, a.lo + b.lo)

\* a * n for a small integer literal n
NumMulInt(a, n) == IF a.nan THEN NaN ELSE Norm(a.hi * n, a.lo * n)

\* a <= b : false when either side is NaN
NumLeq(a, b) ==
    /\ ~a.nan
    /\ ~b.nan
    /\ (a.hi < b.hi \/ (a.hi = b.hi /\ a.lo <= b.lo))

\* a >= b
NumGeq(a, b) == NumLeq(b, a)

\* Math.ceil
MathCeil(a) ==
    IF a.nan THEN NaN
    ELSE IF a.hi % OneHi = 0 /\ a.lo = 0 THEN a
    ELSE Num(((a.hi \div OneHi) + 1) * OneHi, 0)

\* Math.max of two numbers
MathMax(a, b) == IF a.nan \/ b.nan THEN NaN ELSE IF NumGeq(a, b) THEN a ELSE b

\* Math.min of two numbers
MathMin(a, b) == IF a.nan \/ b.nan THEN NaN ELSE IF NumLeq(a, b) THEN a ELSE b

----------------------------------------------------------------------------
(* Values other than numbers. *)

undefined == [undefined |-> TRUE]

NoObject == [none |-> TRUE]

NoError == "no error"

GenericRangeMessage == "Personality trait values must be between 0 and 1.0 inclusive."

OpennessMessage == "Openness value must be between 0 and 1.0 inclusive."

ConscientiousnessMessage == "Conscientiousness value must be between 0 and 1.0 inclusive."

ExtraversionMessage == "Extraversion value must be between 0 and 1.0 inclusive."

AgreeablenessMessage == "Agreeableness value must be between 0 and 1.0 inclusive."

NeuroticismMessage == "Neuroticism value must be between 0 and 1.0 inclusive."

\* The outcome of a call: the value returned, the Error thrown, and the
\* receiver as the call left it.
Return(obj, value) == [this |-> obj, thrown |-> NoError, ret |-> value]

Throw(obj, message) == [this |-> obj, thrown |-> message, ret |-> undefined]

----------------------------------------------------------------------------
(* The static members of FFM. *)

TRAIT_VALUE_MIN == FromInt(0)

TRAIT_VALUE_MAX == FromInt(1)

TRAIT_VALUE_AVG == Tenths(5)

\* trait_isInRange with the upper end excluded.
trait_isInRange_exclusiveMax(value) ==
    /\ NumGeq(value, TRAIT_VALUE_MIN)
    /\ NumLeq(value, TRAIT_VALUE_MAX)
    /\ value # TRAIT_VALUE_MAX

trait_isInRange(value) ==
    NumGeq(value, TRAIT_VALUE_MIN) /\ NumLeq(value, TRAIT_VALUE_MAX)

epsilon == Units(10)

\* calculateLikertScore without the epsilon.
calculateLikertScore_noEpsilon(value) ==
    IF ~trait_isInRange(value)
    THEN Throw(undefined, GenericRangeMessage)
    ELSE LET score == MathCeil(NumMulInt(value, 5))
         IN  Return(undefined, MathMin(MathMax(score, FromInt(1)), FromInt(5)))

\* calculateLikertScore adding the epsilon after the multiplication.
calculateLikertScore_epsilonAfterScaling(value) ==
    IF ~trait_isInRange(value)
    THEN Throw(undefined, GenericRangeMessage)
    ELSE LET score == MathCeil(NumAdd(NumMulInt(value, 5), epsilon))
         IN  Return(undefined, MathMin(MathMax(score, FromInt(1)), FromInt(5)))

\* calculateLikertScore without the clamp into [1,5].
calculateLikertScore_unclamped(value) ==
    IF ~trait_isInRange(value)
    THEN Throw(undefined, GenericRangeMessage)
    ELSE LET score == MathCeil(NumMulInt(NumAdd(value, epsilon), 5))
         IN  Return(undefined, score)

\* calculateLikertScore without its precondition: out-of-range values are
\* clamped like the rest.
calculateLikertScore_noRangeCheck(value) ==
    LET score == MathCeil(NumMulInt(NumAdd(value, epsilon), 5))
    IN  Return(undefined, MathMin(MathMax(score, FromInt(1)), FromInt(5)))

calculateLikertScore(value) ==
    IF ~trait_isInRange(value)
    THEN Throw(undefined, GenericRangeMessage)
    ELSE LET score == MathCeil(NumMulInt(NumAdd(value, epsilon), 5))
         IN  Return(undefined, MathMin(MathMax(score, FromInt(1)), FromInt(5)))

----------------------------------------------------------------------------
(* Construction. *)

\* The object `new` hands to the constructor: no field assigned yet.
EmptyObject ==
    [_openness |-> undefined, _conscientiousness |-> undefined,
     _extraversion |-> undefined, _agreeableness |-> undefined,
     _neuroticism |-> undefined]

\* The constructor storing extraversion and agreeableness in each other's field.
constructor_swapped(openness, conscientiousness, extraversion, agreeableness, neuroticism) ==
    IF \/ ~trait_isInRange(openness)
       \/ ~trait_isInRange(conscientiousness)
       \/ ~trait_isInRange(extraversion)
       \/ ~trait_isInRange(agreeableness)
       \/ ~trait_isInRange(neuroticism)
    THEN Throw(EmptyObject, GenericRangeMessage)
    ELSE LET obj == [_openness |-> openness,
                     _conscientiousness |-> conscientiousness,
                     _extraversion |-> agreeableness,
                     _agreeableness |-> extraversion,
                     _neuroticism |-> neuroticism]
         IN  Return(obj, obj)

\* The constructor validating only the first four arguments.
constructor_fourChecked(openness, conscientiousness, extraversion, agreeableness, neuroticism) ==
    IF \/ ~trait_isInRange(openness)
       \/ ~trait_isInRange(conscientiousness)
       \/ ~trait_isInRange(extraversion)
       \/ ~trait_isInRange(agreeableness)
    THEN Throw(EmptyObject, GenericRangeMessage)
    ELSE LET obj == [_openness |-> openness,
                     _conscientiousness |-> conscientiousness,
                     _extraversion |-> extraversion,
                     _agreeableness |-> agreeableness,
                     _neuroticism |-> neuroticism]
         IN  Return(obj, obj)

constructor(openness, conscientiousness, extraversion, agreeableness, neuroticism) ==
    IF \/ ~trait_isInRange(openness)
       \/ ~trait_isInRange(conscientiousness)
       \/ ~trait_isInRange(extraversion)
       \/ ~trait_isInRange(agreeableness)
       \/ ~trait_isInRange(neuroticism)
    THEN Throw(EmptyObject, GenericRangeMessage)
    ELSE LET obj == [_openness |-> openness,
                     _conscientiousness |-> conscientiousness,
                     _extraversion |-> extraversion,
                     _agreeableness |-> agreeableness,
                     _neuroticism |-> neuroticism]
         IN  Return(obj, obj)

\* createAveragePersonality passing the maximum for the last trait.
createAveragePersonality_maxLast ==
    constructor(TRAIT_VALUE_AVG, TRAIT_VALUE_AVG, TRAIT_VALUE_AVG,
                TRAIT_VALUE_AVG, TRAIT_VALUE_MAX)

createAveragePersonality ==
    constructor(TRAIT_VALUE_AVG, TRAIT_VALUE_AVG, TRAIT_VALUE_AVG,
                TRAIT_VALUE_AVG, TRAIT_VALUE_AVG)

----------------------------------------------------------------------------
(* The accessors: obj is the receiver. *)

get_openness(obj) == Return(obj, obj._openness)

set_openness(obj, value) ==
    IF ~trait_isInRange(value)
    THEN Throw(obj, OpennessMessage)
    ELSE Return([obj EXCEPT !._openness = value], undefined)

get_conscientiousness(obj) == Return(obj, obj._conscientiousness)

\* The conscientiousness setter writing the openness field.
set_conscientiousness_wrongField(obj, value) ==
    IF ~trait_isInRange(value)
    THEN Throw(obj, ConscientiousnessMessage)
    ELSE Return([obj EXCEPT !._openness = value], undefined)

set_conscientiousness(obj, value) ==
    IF ~trait_isInRange(value)
    THEN Throw(obj, ConscientiousnessMessage)
    ELSE Return([obj EXCEPT !._conscientiousness = value], undefined)

get_extraversion(obj) == Return(obj, obj._extraversion)

\* The extraversion setter checking the lower limit only.
set_extraversion_minOnly(obj, value) ==
    IF ~NumGeq(value, TRAIT_VALUE_MIN)
    THEN Throw(obj, ExtraversionMessage)
    ELSE Return([obj EXCEPT !._extraversion = value], undefined)

set_extraversion(obj, value) ==
    IF ~trait_isInRange(value)
    THEN Throw(obj, ExtraversionMessage)
    ELSE Return([obj EXCEPT !._extraversion = value], undefined)

get_agreeableness(obj) == Return(obj, obj._agreeableness)

\* The agreeableness setter assigning before it validates.
set_agreeableness_assignFirst(obj, value) ==
    IF ~trait_isInRange(value)
    THEN Throw([obj EXCEPT !._agreeableness = value], AgreeablenessMessage)
    ELSE Return([obj EXCEPT !._agreeableness = value], undefined)

set_agreeableness(obj, value) ==
    IF ~trait_isInRange(value)
    THEN Throw(obj, AgreeablenessMessage)
    ELSE Return([obj EXCEPT !._agreeableness = value], undefined)

get_neuroticism(obj) == Return(obj, obj._neuroticism)

\* The neuroticism setter without its validation.
set_neuroticism_unchecked(obj, value) ==
    Return([obj EXCEPT !._neuroticism = value], undefined)

set_neuroticism(obj, value) ==
    IF ~trait_isInRange(value)
    THEN Throw(obj, NeuroticismMessage)
    ELSE Return([obj EXCEPT !._neuroticism = value], undefined)

----------------------------------------------------------------------------
(* Number to string, as a template literal converts a number: the shortest *)
(* decimal that reads back as the number, which for a number of the grid   *)
(* is its decimal expansion without trailing zeros; exponent notation      *)
(* below 1e-6.                                                             *)

Digits == <<"0", "1", "2", "3", "4", "5", "6", "7", "8", "9">>

\* The decimal digits of the natural number n.
RECURSIVE NatToString(_)
NatToString(n) ==
    IF n < 10 THEN Digits[n + 1]
    ELSE NatToString(n \div 10) \o Digits[(n % 10) + 1]

\* The digits of n written in w places, zero-padded on the left.
RECURSIVE Padded(_, _)
Padded(n, w) ==
    IF w = 0 THEN ""
    ELSE Digits[(n \div 10^(w - 1)) + 1] \o Padded(n % 10^(w - 1), w - 1)

\* The digits of n written in w places, without the trailing zeros.
RECURSIVE Significant(_, _)
Significant(n, w) ==
    IF n = 0 THEN ""
    ELSE Digits[(n \div 10^(w - 1)) + 1] \o Significant(n % 10^(w - 1), w - 1)

\* The number of decimal digits of n > 0.
RECURSIVE DigitCount(_)
DigitCount(n) == IF n < 10 THEN 1 ELSE 1 + DigitCount(n \div 10)

\* -a
NumNeg(a) == IF a.nan THEN NaN ELSE Norm(-a.hi, -a.lo)

\* The string of a number a > 0.
PositiveToString(a) ==
    LET whole == a.hi \div OneHi
        fracHi == a.hi % OneHi
    IN  IF whole = 0 /\ fracHi = 0 /\ a.lo < 10^5
        THEN LET k == DigitCount(a.lo)
                 rest == Significant(a.lo % 10^(k - 1), k - 1)
             IN  Digits[(a.lo \div 10^(k - 1)) + 1]
                     \o (IF rest = "" THEN "" ELSE "." \o rest)
                     \o "e-" \o NatToString(12 - k)
        ELSE NatToString(whole)
                 \o (IF fracHi = 0 /\ a.lo = 0 THEN ""
                     ELSE IF a.lo = 0 THEN "." \o Significant(fracHi, 5)
                     ELSE "." \o Padded(fracHi, 5) \o Significant(a.lo, 6))

NumberToString(a) ==
    IF a.nan THEN "NaN"
    ELSE IF a.hi = 0 /\ a.lo = 0 THEN "0"
    ELSE IF a.hi < 0 THEN "-" \o PositiveToString(NumNeg(a))
    ELSE PositiveToString(a)

----------------------------------------------------------------------------
(* The three views of a profile: obj is the receiver. *)

\* One pass of the loop of describe: the description of one trait, or the
\* Error of calculateLikertScore.
describeTrait(trait, value) ==
    LET r == calculateLikertScore(value)
        score == r.ret
    IN  IF r.thrown # NoError THEN r
        ELSE Return(undefined,
                 IF score = FromInt(1) THEN "not " \o trait
                 ELSE IF score = FromInt(2) THEN "slightly " \o trait
                 ELSE IF score = FromInt(3) THEN "somewhat " \o trait
                 ELSE IF score = FromInt(4) THEN "moderately " \o trait
                 ELSE IF score = FromInt(5) THEN "strongly " \o trait
                 ELSE "")

\* The Error of the first of a sequence of outcomes that threw, or NoError.
FirstThrown(outcomes) ==
    LET failed == { i \in DOMAIN outcomes : outcomes[i].thrown # NoError }
    IN  IF failed = {} THEN NoError
        ELSE outcomes[CHOOSE i \in failed : \A j \in failed : i <= j].thrown

\* describe reading the agreeableness field for the neurotic clause.
describe_neuroticFromAgreeableness(obj) ==
    LET descriptions ==
            [open |-> describeTrait("open", obj._openness),
             conscientious |-> describeTrait("conscientious", obj._conscientiousness),
             extraverted |-> describeTrait("extraverted", obj._extraversion),
             agreeable |-> describeTrait("agreeable", obj._agreeableness),
             neurotic |-> describeTrait("neurotic", obj._agreeableness)]
        failure == FirstThrown(<<descriptions.open, descriptions.conscientious,
                                 descriptions.extraverted, descriptions.agreeable,
                                 descriptions.neurotic>>)
    IN  IF failure # NoError THEN Throw(obj, failure)
        ELSE Return(obj,
                 "According to the Five Factor Model this personality is: "
                     \o descriptions.open.ret \o ", "
                     \o descriptions.conscientious.ret \o ", "
                     \o descriptions.extraverted.ret \o ", "
                     \o descriptions.agreeable.ret \o ", and "
                     \o descriptions.neurotic.ret \o ".")

describe(obj) ==
    LET descriptions ==
            [open |-> describeTrait("open", obj._openness),
             conscientious |-> describeTrait("conscientious", obj._conscientiousness),
             extraverted |-> describeTrait("extraverted", obj._extraversion),
             agreeable |-> describeTrait("agreeable", obj._agreeableness),
             neurotic |-> describeTrait("neurotic", obj._neuroticism)]
        failure == FirstThrown(<<descriptions.open, descriptions.conscientious,
                                 descriptions.extraverted, descriptions.agreeable,
                                 descriptions.neurotic>>)
    IN  IF failure # NoError THEN Throw(obj, failure)
        ELSE Return(obj,
                 "According to the Five Factor Model this personality is: "
                     \o descriptions.open.ret \o ", "
                     \o descriptions.conscientious.ret \o ", "
                     \o descriptions.extraverted.ret \o ", "
                     \o descriptions.agreeable.ret \o ", and "
                     \o descriptions.neurotic.ret \o ".")

\* toJSON scoring openness again where the conscientiousness score belongs.
toJSON_likertOfOpennessTwice(obj) ==
    LET likert ==
            [openness |-> calculateLikertScore(obj._openness),
             conscientiousness |-> calculateLikertScore(obj._openness),
             extraversion |-> calculateLikertScore(obj._extraversion),
             agreeableness |-> calculateLikertScore(obj._agreeableness),
             neuroticism |-> calculateLikertScore(obj._neuroticism)]
        failure == FirstThrown(<<likert.openness, likert.conscientiousness,
                                 likert.extraversion, likert.agreeableness,
                                 likert.neuroticism>>)
    IN  IF failure # NoError THEN Throw(obj, failure)
        ELSE Return(obj,
                 [normalized |->
                      [openness |-> obj._openness,
                       conscientiousness |-> obj._conscientiousness,
                       extraversion |-> obj._extraversion,
                       agreeableness |-> obj._agreeableness,
                       neuroticism |-> obj._neuroticism],
                  likert |->
                      [openness |-> likert.openness.ret,
                       conscientiousness |-> likert.conscientiousness.ret,
                       extraversion |-> likert.extraversion.ret,
                       agreeableness |-> likert.agreeableness.ret,
                       neuroticism |-> likert.neuroticism.ret]])

toJSON(obj) ==
    LET likert ==
            [openness |-> calculateLikertScore(obj._openness),
             conscientiousness |-> calculateLikertScore(obj._conscientiousness),
             extraversion |-> calculateLikertScore(obj._extraversion),
             agreeableness |-> calculateLikertScore(obj._agreeableness),
             neuroticism |-> calculateLikertScore(obj._neuroticism)]
        failure == FirstThrown(<<likert.openness, likert.conscientiousness,
                                 likert.extraversion, likert.agreeableness,
                                 likert.neuroticism>>)
    IN  IF failure # NoError THEN Throw(obj, failure)
        ELSE Return(obj,
                 [normalized |->
                      [openness |-> obj._openness,
                       conscientiousness |-> obj._conscientiousness,
                       extraversion |-> obj._extraversion,
                       agreeableness |-> obj._agreeableness,
                       neuroticism |-> obj._neuroticism],
                  likert |->
                      [openness |-> likert.openness.ret,
                       conscientiousness |-> likert.conscientiousness.ret,
                       extraversion |-> likert.extraversion.ret,
                       agreeableness |-> likert.agreeableness.ret,
                       neuroticism |-> likert.neuroticism.ret]])

\* toString printing the agreeableness score under E and the extraversion score under A.
toString_likertSwapped(obj) ==
    LET normalized ==
            "O:" \o NumberToString(obj._openness)
                \o ", C:" \o NumberToString(obj._conscientiousness)
                \o ", E:" \o NumberToString(obj._extraversion)
                \o ", A:" \o NumberToString(obj._agreeableness)
                \o ", N:" \o NumberToString(obj._neuroticism)
        scores ==
            <<calculateLikertScore(obj._openness),
              calculateLikertScore(obj._conscientiousness),
              calculateLikertScore(obj._extraversion),
              calculateLikertScore(obj._agreeableness),
              calculateLikertScore(obj._neuroticism)>>
        failure == FirstThrown(scores)
        likert ==
            "O:" \o NumberToString(scores[1].ret)
                \o ", C:" \o NumberToString(scores[2].ret)
                \o ", E:" \o NumberToString(scores[4].ret)
                \o ", A:" \o NumberToString(scores[3].ret)
                \o ", N:" \o NumberToString(scores[5].ret)
    IN  IF failure # NoError THEN Throw(obj, failure)
        ELSE Return(obj, "FFM[Normalized:{" \o normalized \o "}, Likert:{" \o likert \o "}]")

toString(obj) ==
    LET normalized ==
            "O:" \o NumberToString(obj._openness)
                \o ", C:" \o NumberToString(obj._conscientiousness)
                \o ", E:" \o NumberToString(obj._extraversion)
                \o ", A:" \o NumberToString(obj._agreeableness)
                \o ", N:" \o NumberToString(obj._neuroticism)
        scores ==
            <<calculateLikertScore(obj._openness),
              calculateLikertScore(obj._conscientiousness),
              calculateLikertScore(obj._extraversion),
              calculateLikertScore(obj._agreeableness),
              calculateLikertScore(obj._neuroticism)>>
        failure == FirstThrown(scores)
        likert ==
            "O:" \o NumberToString(scores[1].ret)
                \o ", C:" \o NumberToString(scores[2].ret)
                \o ", E:" \o NumberToString(scores[3].ret)
                \o ", A:" \o NumberToString(scores[4].ret)
                \o ", N:" \o NumberToString(scores[5].ret)
    IN  IF failure # NoError THEN Throw(obj, failure)
        ELSE Return(obj, "FFM[Normalized:{" \o normalized \o "}, Likert:{" \o likert \o "}]")

----------------------------------------------------------------------------
(* The inputs the model draws. *)

InRangeValues == { Ratio(k, ObjSteps) : k \in 0 .. ObjSteps }

OutOfRangeValues == { Units(-1), NumAdd(FromInt(1), Units(1)), NaN }

ObjValues == InRangeValues \cup OutOfRangeValues

\* The inputs of the static functions: every tenth from -0.1 to 1.1; around
\* every multiple of 0.2 from 0 to 1, offsets of whole half-epsilons; and NaN.
StaticInputs ==
    { Tenths(t) : t \in -1 .. 11 }
        \cup { NumAdd(Tenths(2 * k), Units(5 * d)) : k \in 0 .. 5, d \in -MaxOff .. MaxOff }
        \cup {NaN}

\* The trait values of the profiles whose views are taken.
ViewValues == { Ratio(k, ViewSteps) : k \in 0 .. ViewSteps }

NoCall == [op |-> "none", arg |-> undefined, thrown |-> NoError, ret |-> undefined]

----------------------------------------------------------------------------
(* The life of one profile. *)

Init ==
    /\ ffm = NoObject
    /\ op = "none"
    /\ args = <<>>
    /\ thrown = NoError
    /\ ret = undefined
    /\ this = undefined
    /\ prev = NoCall

\* ffm = new FFM(o, c, e, a, n), the first call of a behaviour: the
\* assignment happens only if the constructor returns.
New ==
    /\ op = "none"
    /\ \E o \in ObjValues, c \in ObjValues, e \in ObjValues, a \in ObjValues, n \in ObjValues :
        LET r == constructor(o, c, e, a, n)
        IN  /\ op' = "new"
            /\ args' = <<o, c, e, a, n>>
            /\ thrown' = r.thrown
            /\ ret' = r.ret
            /\ this' = r.this
            /\ ffm' = IF r.thrown = NoError THEN r.ret ELSE ffm
    /\ UNCHANGED prev

\* ffm = FFM.createAveragePersonality()
CreateAveragePersonality ==
    /\ op = "none"
    /\ LET r == createAveragePersonality
       IN  /\ op' = "createAveragePersonality"
           /\ args' = <<>>
           /\ thrown' = r.thrown
           /\ ret' = r.ret
           /\ this' = r.this
           /\ ffm' = IF r.thrown = NoError THEN r.ret ELSE ffm
    /\ UNCHANGED prev

\* ffm.openness : the caller's reference is untouched, the object it refers to
\* is as the getter left it.
GetOpenness ==
    /\ ffm # NoObject
    /\ LET r == get_openness(ffm)
       IN  /\ op' = "get openness"
           /\ args' = <<>>
           /\ thrown' = r.thrown
           /\ ret' = r.ret
           /\ this' = r.this
           /\ ffm' = r.this
    /\ UNCHANGED prev

\* ffm.openness = v
SetOpenness ==
    /\ ffm # NoObject
    /\ \E v \in ObjValues :
        LET r == set_openness(ffm, v)
        IN  /\ op' = "set openness"
            /\ args' = <<v>>
            /\ thrown' = r.thrown
            /\ ret' = r.ret
            /\ this' = r.this
            /\ ffm' = r.this
    /\ UNCHANGED prev

\* ffm.conscientiousness : the caller's reference is untouched, the object it refers to
\* is as the getter left it.
GetConscientiousness ==
    /\ ffm # NoObject
    /\ LET r == get_conscientiousness(ffm)
       IN  /\ op' = "get conscientiousness"
           /\ args' = <<>>
           /\ thrown' = r.thrown
           /\ ret' = r.ret
           /\ this' = r.this
           /\ ffm' = r.this
    /\ UNCHANGED prev

\* ffm.conscientiousness = v
SetConscientiousness ==
    /\ ffm # NoObject
    /\ \E v \in ObjValues :
        LET r == set_conscientiousness(ffm, v)
        IN  /\ op' = "set conscientiousness"
            /\ args' = <<v>>
            /\ thrown' = r.thrown
            /\ ret' = r.ret
            /\ this' = r.this
            /\ ffm' = r.this
    /\ UNCHANGED prev

\* ffm.extraversion : the caller's reference is untouched, the object it refers to
\* is as the getter left it.
GetExtraversion ==
    /\ ffm # NoObject
    /\ LET r == get_extraversion(ffm)
       IN  /\ op' = "get extraversion"
           /\ args' = <<>>
           /\ thrown' = r.thrown
           /\ ret' = r.ret
           /\ this' = r.this
           /\ ffm' = r.this
    /\ UNCHANGED prev

\* ffm.extraversion = v
SetExtraversion ==
    /\ ffm # NoObject
    /\ \E v \in ObjValues :
        LET r == set_extraversion(ffm, v)
        IN  /\ op' = "set extraversion"
            /\ args' = <<v>>
            /\ thrown' = r.thrown
            /\ ret' = r.ret
            /\ this' = r.this
            /\ ffm' = r.this
    /\ UNCHANGED prev

\* ffm.agreeableness : the caller's reference is untouched, the object it refers to
\* is as the getter left it.
GetAgreeableness ==
    /\ ffm # NoObject
    /\ LET r == get_agreeableness(ffm)
       IN  /\ op' = "get agreeableness"
           /\ args' = <<>>
           /\ thrown' = r.thrown
           /\ ret' = r.ret
           /\ this' = r.this
           /\ ffm' = r.this
    /\ UNCHANGED prev

\* ffm.agreeableness = v
SetAgreeableness ==
    /\ ffm # NoObject
    /\ \E v \in ObjValues :
        LET r == set_agreeableness(ffm, v)
        IN  /\ op' = "set agreeableness"
            /\ args' = <<v>>
            /\ thrown' = r.thrown
            /\ ret' = r.ret
            /\ this' = r.this
            /\ ffm' = r.this
    /\ UNCHANGED prev

\* ffm.neuroticism : the caller's reference is untouched, the object it refers to
\* is as the getter left it.
GetNeuroticism ==
    /\ ffm # NoObject
    /\ LET r == get_neuroticism(ffm)
       IN  /\ op' = "get neuroticism"
           /\ args' = <<>>
           /\ thrown' = r.thrown
           /\ ret' = r.ret
           /\ this' = r.this
           /\ ffm' = r.this
    /\ UNCHANGED prev

\* ffm.neuroticism = v
SetNeuroticism ==
    /\ ffm # NoObject
    /\ \E v \in ObjValues :
        LET r == set_neuroticism(ffm, v)
        IN  /\ op' = "set neuroticism"
            /\ args' = <<v>>
            /\ thrown' = r.thrown
            /\ ret' = r.ret
            /\ this' = r.this
            /\ ffm' = r.this
    /\ UNCHANGED prev

\* ffm.describe()
Describe ==
    /\ ffm # NoObject
    /\ \E r \in {describe(ffm)} :
        /\ op' = "describe"
        /\ args' = <<>>
        /\ thrown' = r.thrown
        /\ ret' = r.ret
        /\ this' = r.this
        /\ ffm' = r.this
    /\ UNCHANGED prev

\* ffm.toJSON()
ToJSON ==
    /\ ffm # NoObject
    /\ \E r \in {toJSON(ffm)} :
        /\ op' = "toJSON"
        /\ args' = <<>>
        /\ thrown' = r.thrown
        /\ ret' = r.ret
        /\ this' = r.this
        /\ ffm' = r.this
    /\ UNCHANGED prev

\* ffm.toString()
ToStringCall ==
    /\ ffm # NoObject
    /\ \E r \in {toString(ffm)} :
        /\ op' = "toString"
        /\ args' = <<>>
        /\ thrown' = r.thrown
        /\ ret' = r.ret
        /\ this' = r.this
        /\ ffm' = r.this
    /\ UNCHANGED prev

Next ==
    \/ New
    \/ CreateAveragePersonality
    \/ GetOpenness
    \/ SetOpenness
    \/ GetConscientiousness
    \/ SetConscientiousness
    \/ GetExtraversion
    \/ SetExtraversion
    \/ GetAgreeableness
    \/ SetAgreeableness
    \/ GetNeuroticism
    \/ SetNeuroticism
    \/ Describe
    \/ ToJSON
    \/ ToStringCall

Spec == Init /\ [][Next]_vars

----------------------------------------------------------------------------
(* The static functions, called any number of times beside a profile. *)

InitStatic ==
    /\ ffm = createAveragePersonality.ret
    /\ op = "none"
    /\ args = <<>>
    /\ thrown = NoError
    /\ ret = undefined
    /\ this = undefined
    /\ prev = NoCall

\* The call a static call replaces as the last one.
LastCall ==
    [op |-> op, arg |-> IF args = <<>> THEN undefined ELSE args[1],
     thrown |-> thrown, ret |-> ret]

\* FFM.trait_isInRange(v)
TraitIsInRange ==
    /\ \E v \in StaticInputs :
        LET r == Return(undefined, trait_isInRange(v))
        IN  /\ op' = "trait_isInRange"
            /\ args' = <<v>>
            /\ thrown' = r.thrown
            /\ ret' = r.ret
            /\ this' = r.this
    /\ prev' = LastCall
    /\ UNCHANGED ffm

\* FFM.calculateLikertScore(v)
CalculateLikertScore ==
    /\ \E v \in StaticInputs :
        LET r == calculateLikertScore(v)
        IN  /\ op' = "calculateLikertScore"
            /\ args' = <<v>>
            /\ thrown' = r.thrown
            /\ ret' = r.ret
            /\ this' = r.this
    /\ prev' = LastCall
    /\ UNCHANGED ffm

NextStatic ==
    \/ TraitIsInRange
    \/ CalculateLikertScore

SpecStatic == InitStatic /\ [][NextStatic]_vars

----------------------------------------------------------------------------
(* The views of a profile, taken any number of times after construction. *)

\* The state right after ffm = new FFM(o, c, e, a, n) returned.
InitViews ==
    \E o \in ViewValues, c \in ViewValues, e \in ViewValues, a \in ViewValues, n \in ViewValues :
        LET r == constructor(o, c, e, a, n)
        IN  /\ r.thrown = NoError
            /\ ffm = r.ret
            /\ op = "new"
            /\ args = <<o, c, e, a, n>>
            /\ thrown = r.thrown
            /\ ret = r.ret
            /\ this = r.this
            /\ prev = NoCall

NextViews ==
    \/ Describe
    \/ ToJSON
    \/ ToStringCall

SpecViews == InitViews /\ [][NextViews]_vars

----------------------------------------------------------------------------
(* The properties checked. *)

\* v is a number with 0 <= v <= 1, read off the representation.
InUnitInterval(v) ==
    /\ v # undefined
    /\ ~v.nan
    /\ v.hi >= 0
    /\ (v.hi < OneHi \/ (v.hi = OneHi /\ v.lo = 0))

\* The five stored traits of a profile, in the order of the constructor.
Traits(obj) ==
    <<obj._openness, obj._conscientiousness, obj._extraversion,
      obj._agreeableness, obj._neuroticism>>

\* What the five getters return on a profile, in the same order.
Getters(obj) ==
    <<get_openness(obj).ret, get_conscientiousness(obj).ret,
      get_extraversion(obj).ret, get_agreeableness(obj).ret,
      get_neuroticism(obj).ret>>

One == Num(OneHi, 0)

Half == Num(OneHi \div 2, 0)

Zero == Num(0, 0)

\* C1: whenever a profile exists, after construction and after any setter
\* call, accepted or rejected, each of its five stored traits is a number
\* between 0 and 1 inclusive.
C1_TraitsInRange ==
    ffm # NoObject => \A i \in 1 .. 5 : InUnitInterval(Traits(ffm)[i])

\* A profile on which setters were accepted and the last setter call, with
\* an out-of-range value, was rejected.
C1_Witness ==
    /\ op = "set neuroticism"
    /\ thrown # NoError
    /\ ~InUnitInterval(args[1])
    /\ ffm # NoObject
    /\ Traits(ffm) = <<One, Half, Zero, Half, One>>

\* C2: a construction whose five arguments are all in [0,1] succeeds, and
\* each getter returns the argument passed for its trait, in the order
\* openness, conscientiousness, extraversion, agreeableness, neuroticism.
C2_ConstructionStoresArguments ==
    (op = "new" /\ \A i \in 1 .. 5 : InUnitInterval(args[i]))
        => /\ thrown = NoError
           /\ ffm # NoObject
           /\ ret = ffm
           /\ \A i \in 1 .. 5 : Getters(ffm)[i] = args[i]

\* A successful construction with arguments that differ between traits.
C2_Witness ==
    /\ op = "new"
    /\ thrown = NoError
    /\ args = <<Zero, Half, One, Half, Zero>>
    /\ Getters(ffm) = args

\* C3: a construction with at least one argument outside [0,1] throws the
\* generic range message, yields no profile, and has assigned no field of
\* the object under construction.
C3_ConstructionRejectsOutOfRange ==
    (op = "new" /\ \E i \in 1 .. 5 : ~InUnitInterval(args[i]))
        => /\ thrown = "Personality trait values must be between 0 and 1.0 inclusive."
           /\ ffm = NoObject
           /\ ret = undefined
           /\ \A i \in 1 .. 5 : Traits(this)[i] = undefined

\* A rejected construction whose only out-of-range argument is the last.
C3_Witness ==
    /\ op = "new"
    /\ thrown # NoError
    /\ \A i \in 1 .. 4 : InUnitInterval(args[i])
    /\ ~InUnitInterval(args[5])
    /\ ffm = NoObject

\* The message a setter's rejection carries, by the operation's name.
TraitMessage(name) ==
    CASE name = "set openness" -> "Openness value must be between 0 and 1.0 inclusive."
      [] name = "set conscientiousness" -> "Conscientiousness value must be between 0 and 1.0 inclusive."
      [] name = "set extraversion" -> "Extraversion value must be between 0 and 1.0 inclusive."
      [] name = "set agreeableness" -> "Agreeableness value must be between 0 and 1.0 inclusive."
      [] name = "set neuroticism" -> "Neuroticism value must be between 0 and 1.0 inclusive."

SetterNames ==
    {"set openness", "set conscientiousness", "set extraversion",
     "set agreeableness", "set neuroticism"}

\* C4: a setter called with a value outside [0,1] throws the message that
\* names its trait and leaves all five stored traits as they were.
C4_SetterRejectsOutOfRange ==
    [][(op' \in SetterNames /\ ~InUnitInterval(args'[1]))
        => /\ thrown' = TraitMessage(op')
           /\ ffm' = ffm]_vars

\* A rejected setter call on a profile.
C4_Witness ==
    /\ op = "set agreeableness"
    /\ ~InUnitInterval(args[1])
    /\ thrown = "Agreeableness value must be between 0 and 1.0 inclusive."
    /\ ffm # NoObject

\* The profile obj with the trait a setter names replaced by v.
WithTrait(obj, name, v) ==
    CASE name = "set openness" -> [obj EXCEPT !._openness = v]
      [] name = "set conscientiousness" -> [obj EXCEPT !._conscientiousness = v]
      [] name = "set extraversion" -> [obj EXCEPT !._extraversion = v]
      [] name = "set agreeableness" -> [obj EXCEPT !._agreeableness = v]
      [] name = "set neuroticism" -> [obj EXCEPT !._neuroticism = v]

\* What the getter of the trait a setter names returns on obj.
GetterOf(obj, name) ==
    CASE name = "set openness" -> get_openness(obj).ret
      [] name = "set conscientiousness" -> get_conscientiousness(obj).ret
      [] name = "set extraversion" -> get_extraversion(obj).ret
      [] name = "set agreeableness" -> get_agreeableness(obj).ret
      [] name = "set neuroticism" -> get_neuroticism(obj).ret

\* C5: a setter called with a value v in [0,1] succeeds, after it the
\* getter of its trait returns v, and the other four stored traits are as
\* they were.
C5_SetterWritesOwnTrait ==
    [][(op' \in SetterNames /\ InUnitInterval(args'[1]))
        => /\ thrown' = NoError
           /\ GetterOf(ffm', op') = args'[1]
           /\ ffm' = WithTrait(ffm, op', args'[1])]_vars

\* An accepted setter call that changed its trait on a profile whose other
\* traits hold other values.
C5_Witness ==
    /\ op = "set conscientiousness"
    /\ thrown = NoError
    /\ args = <<One>>
    /\ Traits(ffm) = <<Half, One, Half, Half, Half>>

\* C6: createAveragePersonality succeeds and yields a profile whose five
\* traits are all 0.5, the profile that constructing with five 0.5s yields.
C6_AverageIsAllHalf ==
    op = "createAveragePersonality"
        => /\ thrown = NoError
           /\ ffm # NoObject
           /\ ret = ffm
           /\ \A i \in 1 .. 5 : Getters(ffm)[i] = Half
           /\ ffm = constructor(Half, Half, Half, Half, Half).ret

\* The state right after createAveragePersonality.
C6_Witness ==
    /\ op = "createAveragePersonality"
    /\ ffm # NoObject
    /\ ffm._neuroticism = Half

\* C7: trait_isInRange(v) returns true exactly when 0 <= v <= 1, both
\* ends included, and no call of it changes the profile.
C7_RangePredicateIsClosedInterval ==
    /\ [](op = "trait_isInRange"
            => /\ thrown = NoError
               /\ ret = InUnitInterval(args[1])
               /\ (args[1] \in {Zero, One} => ret = TRUE))
    /\ [][op' = "trait_isInRange" => ffm' = ffm]_vars

\* trait_isInRange called on the upper end, 1.
C7_Witness ==
    /\ op = "trait_isInRange"
    /\ args = <<One>>
    /\ ret = TRUE
    /\ ffm # NoObject

\* C8 as stated: at the multiples of 0.2 the score is that of the lower
\* bucket: 0.0 -> 1, 0.2 -> 1, 0.4 -> 2, 0.6 -> 3, 0.8 -> 4, 1.0 -> 5.
C8_FencepostsInLowerBucket ==
    op = "calculateLikertScore"
        => \A k \in 0 .. 5 :
            args[1] = Tenths(2 * k)
                => thrown = NoError /\ ret = FromInt(IF k = 0 THEN 1 ELSE k)

\* C8 as amended: at the multiples of 0.2 the score is that of the upper
\* bucket: 0.0 -> 1, 0.2 -> 2, 0.4 -> 3, 0.6 -> 4, 0.8 -> 5, 1.0 -> 5; so
\* bucket 1 excludes 0.2 and bucket 5 includes 0.8.
C8_FencepostsInUpperBucket ==
    op = "calculateLikertScore"
        => \A k \in 0 .. 5 :
            args[1] = Tenths(2 * k)
                => thrown = NoError /\ ret = FromInt(IF k = 5 THEN 5 ELSE k + 1)

\* calculateLikertScore called on the fencepost 0.8.
C8_Witness ==
    /\ op = "calculateLikertScore"
    /\ args = <<Tenths(8)>>
    /\ ret = FromInt(5)

\* The n in 1 .. 5 with (n-1)/5 < x <= n/5, n = 1 below and n = 5 above:
\* the ceiling of 5x clamped into [1,5], found by comparisons.
ClampedCeilingOfFive(x) ==
    CHOOSE n \in 1 .. 5 :
        /\ (n = 1 \/ ~NumLeq(x, Tenths(2 * (n - 1))))
        /\ (n = 5 \/ NumLeq(x, Tenths(2 * n)))

\* C9: for v in [0,1] the score is ceil((v + 1e-10) * 5) clamped into
\* [1,5]; so k/5 maps to k+1 for k = 1 .. 4, 0 maps to 1, 1.0 maps to 5, and
\* 0.1, 0.3, 0.5, 0.7, 0.9 map to 1, 2, 3, 4, 5.
C9_ScoreIsClampedCeiling ==
    (op = "calculateLikertScore" /\ InUnitInterval(args[1]))
        => /\ thrown = NoError
           /\ ret = FromInt(ClampedCeilingOfFive(NumAdd(args[1], Units(10))))
           /\ \A k \in 1 .. 4 : args[1] = Tenths(2 * k) => ret = FromInt(k + 1)
           /\ args[1] = Zero => ret = FromInt(1)
           /\ args[1] = One => ret = FromInt(5)
           /\ \A j \in 1 .. 5 : args[1] = Tenths(2 * j - 1) => ret = FromInt(j)

\* calculateLikertScore called on 1.0, where the ceiling overshoots to 6.
C9_Witness ==
    /\ op = "calculateLikertScore"
    /\ args = <<One>>
    /\ thrown = NoError
    /\ ret = FromInt(5)

LikertScores == { FromInt(k) : k \in 1 .. 5 }

\* C10: for v in [0,1] the score is one of 1, 2, 3, 4, 5; of two calls with
\* in-range v <= w the score of v is at most the score of w; and each of
\* the five scores is the score of some in-range value.
C10_ScoreMonotonicInRange ==
    /\ (op = "calculateLikertScore" /\ InUnitInterval(args[1]))
            => ret \in LikertScores
    /\ ( /\ op = "calculateLikertScore"
         /\ prev.op = "calculateLikertScore"
         /\ InUnitInterval(prev.arg)
         /\ InUnitInterval(args[1])
         /\ NumLeq(prev.arg, args[1]) )
            => NumLeq(prev.ret, ret)
    /\ \A score \in LikertScores :
            \E v \in StaticInputs :
                InUnitInterval(v) /\ calculateLikertScore(v).ret = score

\* Two calls in a row on in-range values half an epsilon apart whose scores
\* differ.
C10_Witness ==
    /\ op = "calculateLikertScore"
    /\ prev.op = "calculateLikertScore"
    /\ prev.arg = NumAdd(Tenths(2), Units(-10))
    /\ args = <<NumAdd(Tenths(2), Units(-5))>>
    /\ prev.ret = FromInt(1)
    /\ ret = FromInt(2)

\* v is a number below 0 or above 1, read off the representation.
OutsideUnitInterval(v) ==
    /\ ~v.nan
    /\ (v.hi < 0 \/ v.hi > OneHi \/ (v.hi = OneHi /\ v.lo > 0))

\* C11: calculateLikertScore(v) throws the generic range message and
\* returns no score for every v < 0 and every v > 1, and throws for no v in
\* [0,1].
C11_ScoreRejectsOutOfRange ==
    op = "calculateLikertScore"
        => /\ OutsideUnitInterval(args[1])
                => /\ thrown = "Personality trait values must be between 0 and 1.0 inclusive."
                   /\ ret = undefined
           /\ InUnitInterval(args[1])
                => /\ thrown = NoError
                   /\ ret # undefined

\* calculateLikertScore called half an epsilon above 1.
C11_Witness ==
    /\ op = "calculateLikertScore"
    /\ args = <<NumAdd(One, Units(5))>>
    /\ thrown # NoError
    /\ ret = undefined

\* The adverb of a Likert score.
Adverb(score) ==
    CASE score = FromInt(1) -> "not"
      [] score = FromInt(2) -> "slightly"
      [] score = FromInt(3) -> "somewhat"
      [] score = FromInt(4) -> "moderately"
      [] score = FromInt(5) -> "strongly"
      [] OTHER -> ""

\* The adverb of the Likert score of a trait value.
AdverbOf(v) == Adverb(calculateLikertScore(v).ret)

Quarter == Ratio(1, 4)

ThreeQuarters == Ratio(3, 4)

\* C12: describe() returns the fixed sentence with the clauses open,
\* conscientious, extraverted, agreeable, neurotic in this order, the
\* adverb of each being that of the Likert score of the stored openness,
\* conscientiousness, extraversion, agreeableness, neuroticism (1 not,
\* 2 slightly, 3 somewhat, 4 moderately, 5 strongly), none left empty.
C12_DescribeSentence ==
    op = "describe"
        => /\ thrown = NoError
           /\ \A i \in 1 .. 5 : AdverbOf(Traits(ffm)[i]) # ""
           /\ ret = "According to the Five Factor Model this personality is: "
                        \o AdverbOf(ffm._openness) \o " open, "
                        \o AdverbOf(ffm._conscientiousness) \o " conscientious, "
                        \o AdverbOf(ffm._extraversion) \o " extraverted, "
                        \o AdverbOf(ffm._agreeableness) \o " agreeable, and "
                        \o AdverbOf(ffm._neuroticism) \o " neurotic."
           /\ Traits(ffm) = <<Zero, Quarter, Half, ThreeQuarters, One>>
                => ret = "According to the Five Factor Model this personality is: not open, slightly conscientious, somewhat extraverted, moderately agreeable, and strongly neurotic."
           /\ Traits(ffm) = <<Tenths(2), Tenths(4), Tenths(6), Tenths(8), One>>
                => ret = "According to the Five Factor Model this personality is: slightly open, somewhat conscientious, moderately extraverted, strongly agreeable, and strongly neurotic."

\* describe() on a profile whose five traits have the five Likert scores.
C12_Witness ==
    /\ op = "describe"
    /\ Traits(ffm) = <<Zero, Quarter, Half, ThreeQuarters, One>>
    /\ ret = "According to the Five Factor Model this personality is: not open, slightly conscientious, somewhat extraverted, moderately agreeable, and strongly neurotic."

TraitNames ==
    {"openness", "conscientiousness", "extraversion", "agreeableness", "neuroticism"}

\* The full trait name a setter writes.
TraitOf(name) ==
    CASE name = "set openness" -> "openness"
      [] name = "set conscientiousness" -> "conscientiousness"
      [] name = "set extraversion" -> "extraversion"
      [] name = "set agreeableness" -> "agreeableness"
      [] name = "set neuroticism" -> "neuroticism"

\* What the five getters return on a profile, keyed by full trait name.
GettersByName(obj) ==
    [openness |-> get_openness(obj).ret,
     conscientiousness |-> get_conscientiousness(obj).ret,
     extraversion |-> get_extraversion(obj).ret,
     agreeableness |-> get_agreeableness(obj).ret,
     neuroticism |-> get_neuroticism(obj).ret]

\* The export of the profile 0.0, 0.3, 0.5, 0.7, 0.9.
ExportOfOddTenths ==
    toJSON(constructor(Zero, Tenths(3), Tenths(5), Tenths(7), Tenths(9)).ret).ret

\* C13: toJSON() returns exactly the two sub-records normalized and likert,
\* each keyed by the five full trait names; normalized holds what each
\* getter returns on the profile, likert holds calculateLikertScore of that
\* value; a toJSON() that follows an accepted setter call shows the value
\* the setter was given.
C13_ExportReflectsProfile ==
    /\ [](op = "toJSON"
            => /\ thrown = NoError
               /\ DOMAIN ret = {"normalized", "likert"}
               /\ DOMAIN ret.normalized = TraitNames
               /\ DOMAIN ret.likert = TraitNames
               /\ \A t \in TraitNames :
                    /\ ret.normalized[t] = GettersByName(ffm)[t]
                    /\ ret.likert[t] = calculateLikertScore(GettersByName(ffm)[t]).ret
               /\ ExportOfOddTenths.normalized =
                    [openness |-> Zero, conscientiousness |-> Tenths(3),
                     extraversion |-> Tenths(5), agreeableness |-> Tenths(7),
                     neuroticism |-> Tenths(9)]
               /\ ExportOfOddTenths.likert =
                    [openness |-> FromInt(1), conscientiousness |-> FromInt(2),
                     extraversion |-> FromInt(3), agreeableness |-> FromInt(4),
                     neuroticism |-> FromInt(5)])
    /\ [][(op \in SetterNames /\ thrown = NoError /\ op' = "toJSON")
            => /\ ret'.normalized[TraitOf(op)] = args[1]
               /\ ret'.likert[TraitOf(op)] = calculateLikertScore(args[1]).ret]_vars

\* toJSON() on a profile whose traits differ, with the scores 5, 3, 1, 3, 5.
C13_Witness ==
    /\ op = "toJSON"
    /\ Traits(ffm) = <<One, Half, Zero, Half, One>>
    /\ ret.likert = [openness |-> FromInt(5), conscientiousness |-> FromInt(3),
                      extraversion |-> FromInt(1), agreeableness |-> FromInt(3),
                      neuroticism |-> FromInt(5)]

\* A stored trait value as JavaScript prints it.
Shown(v) ==
    CASE v = Zero -> "0"
      [] v = Tenths(2) -> "0.2"
      [] v = Quarter -> "0.25"
      [] v = Tenths(4) -> "0.4"
      [] v = Half -> "0.5"
      [] v = Tenths(6) -> "0.6"
      [] v = ThreeQuarters -> "0.75"
      [] v = Tenths(8) -> "0.8"
      [] v = One -> "1"
      [] OTHER -> NumberToString(v)

\* A Likert score as JavaScript prints it.
ScoreDigit(score) ==
    CASE score = FromInt(1) -> "1"
      [] score = FromInt(2) -> "2"
      [] score = FromInt(3) -> "3"
      [] score = FromInt(4) -> "4"
      [] score = FromInt(5) -> "5"
      [] OTHER -> "?"

ViewNames == {"describe", "toJSON", "toString"}

\* C15: on a profile reached by a successful construction and any setter
\* calls, accepted or rejected, all five stored traits satisfy the
\* precondition of calculateLikertScore, so describe(), toJSON() and
\* toString() do not throw, and each of them leaves the five stored traits
\* as they were.
C15_ViewsNeverThrowNorWrite ==
    /\ [](op \in ViewNames
            => /\ thrown = NoError
               /\ \A i \in 1 .. 5 :
                    /\ InUnitInterval(Traits(ffm)[i])
                    /\ calculateLikertScore(Traits(ffm)[i]).thrown = NoError)
    /\ [][op' \in ViewNames
            => /\ thrown' = NoError
               /\ ffm' = ffm
               /\ Traits(ffm') = Traits(ffm)]_vars

\* describe() returning on a profile that setter calls have changed.
C15_Witness ==
    /\ op = "describe"
    /\ thrown = NoError
    /\ Traits(ffm) = <<Half, Zero, One, Zero, Half>>

====
